---- MODULE Spec2Model ----
(***************************************************************************)
(* A model of rag_mcp: the chunker (chunk_text), the document store, the   *)
(* indexing pipeline (build_index), the query pipeline (query_index) and   *)
(* the status reporter (get_status) of src/rag_mcp/indexer.py, with the    *)
(* document loader of documents.py and the keyword embedder of             *)
(* embeddings.py.                                                          *)
(*                                                                         *)
(* A text is a sequence of one-character strings.  The specifications that *)
(* share the module:                                                       *)
(*   SpecChunk  chunk_text run statement by statement on bounded inputs    *)
(*   SpecChunkFair  SpecChunk with weak fairness of the call's steps       *)
(*   SpecAgg    the aggregation of query_index on bounded hit lists        *)
(*   Spec       build_index / query_index / get_status calls against one   *)
(*              data directory and one collection name                     *)
(*   SpecTwo    the same calls for two collection names                    *)
(*   SpecConc   one build_index call and one query_index call in flight,   *)
(*              statement by statement                                     *)
(***************************************************************************)
EXTENDS Integers, Sequences, FiniteSets, TLC

VARIABLES
    \* chunk_text (SpecChunk)
    text,            \* argument
    chunk_size,      \* argument
    chunk_overlap,   \* argument
    start,           \* local: the window start
    chunks,          \* local: the chunks appended so far (the return value)
    windows,         \* history: the <<start, end>> windows scanned so far
    cpc,             \* "idle" | "call" | "loop" | "done" | "raised"
    \* aggregation of query_index (SpecAgg)
    hits,            \* zip(metadatas, distances) as returned by collection.query
    top_k,           \* argument
    agg_docs,        \* the document store the call loaded
    response,        \* the results list
    apc,             \* "idle" | "call" | "done"
    \* the data directory (Spec)
    store_file,      \* <data_dir>/doc_store.json: whether it exists, doc_id -> record
    collections,     \* the vector store: collection name -> (chunk_id -> entry)
    call,            \* the last call: its arguments, effects and outcome
    \* one build_index call and one query_index call in flight (SpecConc)
    bpc,             \* the statement the build is at
    bloc,            \* the build's arguments, locals and outcome
    qpc,             \* the statement the query is at
    qloc,            \* the query's arguments, locals and outcome
    coll_gen         \* how many times the named collection has been deleted

chunkVars == <<text, chunk_size, chunk_overlap, start, chunks, windows, cpc>>
aggVars == <<hits, top_k, agg_docs, response, apc>>
sysVars == <<store_file, collections, call>>
concVars == <<bpc, bloc, qpc, qloc, coll_gen>>
vars == <<chunkVars, aggVars, sysVars, concVars>>

(***************************************************************************)
(* Bounds                                                                  *)
(***************************************************************************)
MaxTextLen == 4
MaxChunkSize == 3
MaxOverlap == 3

(***************************************************************************)
(* Integers, sequences, Python slices                                      *)
(***************************************************************************)
MinOf(a, b) == IF a <= b THEN a ELSE b

MaxOf(a, b) == IF a >= b THEN a ELSE b

SetMin(S) == CHOOSE m \in S : \A y \in S : m <= y

SetMax(S) == CHOOSE m \in S : \A y \in S : m >= y

\* Python s[i:j]: negative indices count from the end, both are clipped.
Slice(s, i, j) ==
    LET n == Len(s)
        lo == IF i < 0 THEN MaxOf(i + n, 0) ELSE MinOf(i, n)
        hi == IF j < 0 THEN MaxOf(j + n, 0) ELSE MinOf(j, n)
    IN IF lo >= hi THEN <<>> ELSE SubSeq(s, lo + 1, hi)

Chars == {"a", "b", " "}

IsSpace(c) == c = " "

Texts(n) == UNION {[1..k -> Chars] : k \in 0..n}

\* str.strip(): the text between its first and its last non-whitespace character.
StripLeft(s) ==
    LET solid == {i \in 1..Len(s) : ~IsSpace(s[i])}
    IN IF solid = {} THEN <<>> ELSE SubSeq(s, SetMin(solid), Len(s))

Strip(s) ==
    LET solid == {i \in 1..Len(s) : ~IsSpace(s[i])}
    IN IF solid = {} THEN <<>> ELSE SubSeq(s, SetMin(solid), SetMax(solid))

(***************************************************************************)
(* chunk_text                                                              *)
(***************************************************************************)
\* The guard of the ValueError: chunk_size <= 0 raises.
SizeAcceptedZero(size) == size >= 0

SizeAccepted(size) == size > 0

\* overlap = max(0, min(chunk_overlap, chunk_size - 1))
ClampOverlapToSize(ov, size) == MaxOf(0, MinOf(ov, size))

ClampOverlap(ov, size) == MaxOf(0, MinOf(ov, size - 1))

\* end = min(start + chunk_size, length)
WindowEnd(st, size, length) == MinOf(st + size, length)

\* if chunk: chunks.append(chunk)
KeepChunk(chunk) == chunk # <<>>

\* if end >= length: break
LoopBreaks(end, length) == end >= length

\* start = end - overlap
NextStartPlus(end, overlap) == end + overlap

NextStart(end, overlap) == end - overlap

\* One pass through the body of the while loop.
LoopBody(t, size, overlap, st, acc) ==
    LET end == WindowEnd(st, size, Len(t))
        chunk == Strip(Slice(t, st, end))
    IN [chunks |-> IF KeepChunk(chunk) THEN Append(acc, chunk) ELSE acc,
        window |-> <<st, end>>,
        brk    |-> LoopBreaks(end, Len(t)),
        start  |-> NextStart(end, overlap)]

RECURSIVE ChunkFrom(_, _, _, _, _)
ChunkFrom(t, size, overlap, st, acc) ==
    IF ~(st < Len(t)) THEN acc
    ELSE LET b == LoopBody(t, size, overlap, st, acc)
         IN IF b.brk THEN b.chunks ELSE ChunkFrom(t, size, overlap, b.start, b.chunks)

\* chunk_text for an accepted chunk_size: the list it returns.
ChunkText(t, size, ov) == ChunkFrom(t, size, ClampOverlap(ov, size), 0, <<>>)

ChunkIdle ==
    /\ text = <<>>
    /\ chunk_size = 1
    /\ chunk_overlap = 0
    /\ start = 0
    /\ chunks = <<>>
    /\ windows = <<>>
    /\ cpc = "idle"

ChunkInit ==
    /\ text \in Texts(MaxTextLen)
    /\ chunk_size \in -1..MaxChunkSize
    /\ chunk_overlap \in -1..MaxOverlap
    /\ start = 0
    /\ chunks = <<>>
    /\ windows = <<>>
    /\ cpc = "call"

ChunkRaise ==
    /\ cpc = "call"
    /\ ~SizeAccepted(chunk_size)
    /\ cpc' = "raised"
    /\ UNCHANGED <<text, chunk_size, chunk_overlap, start, chunks, windows>>
    /\ UNCHANGED <<aggVars, sysVars, concVars>>

ChunkEnter ==
    /\ cpc = "call"
    /\ SizeAccepted(chunk_size)
    /\ start' = 0
    /\ chunks' = <<>>
    /\ cpc' = "loop"
    /\ UNCHANGED <<text, chunk_size, chunk_overlap, windows>>
    /\ UNCHANGED <<aggVars, sysVars, concVars>>

ChunkIter ==
    /\ cpc = "loop"
    /\ start < Len(text)
    /\ LET b == LoopBody(text, chunk_size, ClampOverlap(chunk_overlap, chunk_size),
                         start, chunks)
       IN /\ chunks' = b.chunks
          /\ windows' = Append(windows, b.window)
          /\ IF b.brk
                THEN cpc' = "done" /\ start' = start
                ELSE cpc' = "loop" /\ start' = b.start
    /\ UNCHANGED <<text, chunk_size, chunk_overlap>>
    /\ UNCHANGED <<aggVars, sysVars, concVars>>

ChunkLoopExit ==
    /\ cpc = "loop"
    /\ ~(start < Len(text))
    /\ cpc' = "done"
    /\ UNCHANGED <<text, chunk_size, chunk_overlap, start, chunks, windows>>
    /\ UNCHANGED <<aggVars, sysVars, concVars>>

NextChunk == ChunkRaise \/ ChunkEnter \/ ChunkIter \/ ChunkLoopExit

(***************************************************************************)
(* query_index: the aggregation of the hits by document                    *)
(***************************************************************************)
MaxHits == 3
MaxTopK == 2

\* score = 1.0 - distance; distances and scores are in hundredths.
ScoreOne == 100

PyNone == "<None>"

\* if not doc_id: continue
Truthy(doc_id) == doc_id \notin {PyNone, ""}

\* current is None or distance < current
CloserReversed(distance, current) == distance > current

Closer(distance, current) == distance < current

\* One pass of the loop over zip(metadatas, distances).  best_scores is a dict:
\* it keeps its keys in the order of their first insertion.
UpdateBest(best, h) ==
    IF ~Truthy(h.doc_id) THEN best
    ELSE LET at == {i \in 1..Len(best) : best[i].doc_id = h.doc_id}
         IN IF at = {}
               THEN Append(best, [doc_id |-> h.doc_id, distance |-> h.distance])
               ELSE LET i == CHOOSE i \in at : TRUE
                    IN IF Closer(h.distance, best[i].distance)
                          THEN [best EXCEPT ![i].distance = h.distance]
                          ELSE best

RECURSIVE BestScoresFrom(_, _)
BestScoresFrom(best, hs) ==
    IF hs = <<>> THEN best ELSE BestScoresFrom(UpdateBest(best, Head(hs)), Tail(hs))

\* best_scores.items() after the loop.
BestScores(hs) == BestScoresFrom(<<>>, hs)

\* sorted(..., key=distance) is stable: an item goes behind the items that are
\* not farther than it.
InsertByDistance(sorted, item) ==
    LET before == {i \in 1..Len(sorted) : sorted[i].distance <= item.distance}
        n == IF before = {} THEN 0 ELSE SetMax(before)
    IN SubSeq(sorted, 1, n) \o <<item>> \o SubSeq(sorted, n + 1, Len(sorted))

RECURSIVE SortedFrom(_, _)
SortedFrom(sorted, items) ==
    IF items = <<>> THEN sorted
    ELSE SortedFrom(InsertByDistance(sorted, Head(items)), Tail(items))

SortedByDistance(items) == SortedFrom(<<>>, items)

\* ranked = sorted(best_scores.items(), key=lambda item: item[1])[:top_k]
Ranked(hs, k) == Slice(SortedByDistance(BestScores(hs)), 0, k)

\* The result appended for a ranked doc_id and its store record.
ResultOfRawDistance(r, stored) ==
    [doc_id      |-> r.doc_id,
     source_path |-> stored.path,
     score       |-> r.distance,
     content     |-> stored.content]

ResultOf(r, stored) ==
    [doc_id      |-> r.doc_id,
     source_path |-> stored.path,
     score       |-> ScoreOne - r.distance,
     content     |-> stored.content]

\* The loop over ranked: a doc_id without a store record is skipped.
RECURSIVE Respond(_, _)
Respond(ranked, docs) ==
    IF ranked = <<>> THEN <<>>
    ELSE LET r == Head(ranked)
         IN IF r.doc_id \notin DOMAIN docs THEN Respond(Tail(ranked), docs)
            ELSE <<ResultOf(r, docs[r.doc_id])>> \o Respond(Tail(ranked), docs)

\* Lines 212-239 of query_index on the hits of collection.query.
AggregateFill(hs, k, docs) == Slice(Respond(SortedByDistance(BestScores(hs)), docs), 0, k)

Aggregate(hs, k, docs) == Respond(Ranked(hs, k), docs)

AggDocIds == {"A", "B"}

AggDistances == {10, 20, 30}

AggHits == [doc_id : AggDocIds \cup {PyNone, ""}, distance : AggDistances]

AggStores ==
    UNION {[ids -> [path : {"p"}, content : {<<"a">>}]] : ids \in SUBSET AggDocIds}

AggIdle ==
    /\ hits = <<>>
    /\ top_k = 1
    /\ agg_docs = <<>>
    /\ response = <<>>
    /\ apc = "idle"

AggInit ==
    /\ hits \in UNION {[1..n -> AggHits] : n \in 0..MaxHits}
    /\ top_k \in 1..MaxTopK
    /\ agg_docs \in AggStores
    /\ response = <<>>
    /\ apc = "call"

AggregateCall ==
    /\ apc = "call"
    /\ response' = Aggregate(hits, top_k, agg_docs)
    /\ apc' = "done"
    /\ UNCHANGED <<hits, top_k, agg_docs>>
    /\ UNCHANGED <<chunkVars, sysVars, concVars>>

NextAgg == AggregateCall

(***************************************************************************)
(* documents.py: the documents directory and load_documents                *)
(***************************************************************************)
\* A path that is no file: a value that is no text.
NoFile == <<"<no file>">>

SUPPORTED_SUFFIXES == {".txt", ".md", ".docx"}

\* The files a documents directory can hold, in the order of sorted(rglob("*")).
Paths == <<[stem |-> "a", suffix |-> ".txt"],
           [stem |-> "b", suffix |-> ".MD"],
           [stem |-> "c", suffix |-> ".bin"]>>

\* str.lower() on the suffixes of Paths.
Lower(suffix) == IF suffix = ".MD" THEN ".md" ELSE suffix

\* path.relative_to(root).as_posix()
RelPath(path) == path.stem \o path.suffix

\* doc_id_for: the SHA-256 digest of the relative path, a one-to-one function
\* of it on Paths.
doc_id_for(path) == "sha256(" \o RelPath(path) \o ")"

\* document.path.as_posix(): the path under the documents directory.
PosixPath(path) == "docs/" \o RelPath(path)

\* The contents a file can have; the first is whitespace only.
DocTexts == {<<" ">>, <<"a">>, <<"b", " ", "a">>}

\* A file of a supported suffix is absent or holds one of DocTexts; the file of
\* the unsupported suffix is there whenever the directory is.
FileStates(path) ==
    IF Lower(path.suffix) \in SUPPORTED_SUFFIXES THEN {NoFile} \cup DocTexts
    ELSE {<<"a">>}

\* The states of the documents directory: missing, or the content of each file.
MissingDir == [exists |-> FALSE, files |-> [i \in 1..Len(Paths) |-> NoFile]]

Dirs ==
    {MissingDir} \cup
    {[exists |-> TRUE, files |-> d] :
        d \in {f \in [1..Len(Paths) -> {NoFile} \cup DocTexts] :
                  \A i \in 1..Len(Paths) : f[i] \in FileStates(Paths[i])}}

\* if not content.strip(): continue
Blank(content) == Strip(content) = <<>>

RECURSIVE LoadFrom(_, _)
LoadFrom(dir, i) ==
    IF i > Len(Paths) THEN <<>>
    ELSE IF \/ dir[i] = NoFile
            \/ Lower(Paths[i].suffix) \notin SUPPORTED_SUFFIXES
            \/ Blank(dir[i])
         THEN LoadFrom(dir, i + 1)
         ELSE <<[doc_id  |-> doc_id_for(Paths[i]),
                 path    |-> PosixPath(Paths[i]),
                 content |-> dir[i]]>> \o LoadFrom(dir, i + 1)

\* if not docs_dir.exists(): return []
load_documents(dir) == IF ~dir.exists THEN <<>> ELSE LoadFrom(dir.files, 1)

(***************************************************************************)
(* embeddings.py: SimpleKeywordEmbedder, and the cosine distance of the    *)
(* vector store                                                            *)
(***************************************************************************)
dim == 64

\* The UTF-8 byte of a character.
Byte(c) == IF c = "a" THEN 97 ELSE IF c = "b" THEN 98 ELSE 32

\* [A-Za-z0-9_]
WordChar(c) == c \in {"a", "b"}

\* pattern.findall(text.lower()): the maximal runs of word characters.
RECURSIVE TokensFrom(_, _, _)
TokensFrom(t, i, cur) ==
    IF i > Len(t) THEN (IF cur = <<>> THEN <<>> ELSE <<cur>>)
    ELSE IF WordChar(t[i]) THEN TokensFrom(t, i + 1, Append(cur, t[i]))
    ELSE (IF cur = <<>> THEN <<>> ELSE <<cur>>) \o TokensFrom(t, i + 1, <<>>)

Tokens(t) == TokensFrom(t, 1, <<>>)

RECURSIVE ByteSum(_)
ByteSum(token) == IF token = <<>> THEN 0 ELSE Byte(Head(token)) + ByteSum(Tail(token))

\* zlib.adler32(token) % dim: the high half of the checksum is a multiple of
\* 65536, so the bucket is that of its low half, 1 + the sum of the bytes.
Bucket(token) == ((1 + ByteSum(token)) % 65521) % dim

\* The bucket counts of one text, kept on the buckets that are hit.  The
\* embedder divides them by their norm; the cosine distance below is the same
\* for the counts and for the normalised vector.
Embed(t) ==
    LET toks == Tokens(t)
        hit == {Bucket(toks[i]) : i \in 1..Len(toks)}
    IN [k \in hit |-> Cardinality({i \in 1..Len(toks) : Bucket(toks[i]) = k})]

RECURSIVE SumOver(_, _)
SumOver(S, f) ==
    IF S = {} THEN 0
    ELSE LET x == CHOOSE x \in S : TRUE IN f[x] + SumOver(S \ {x}, f)

Dot(u, v) ==
    LET both == DOMAIN u \cap DOMAIN v
    IN SumOver(both, [k \in both |-> u[k] * v[k]])

Isqrt(n) == CHOOSE r \in 0..ScoreOne : r * r <= n /\ n < (r + 1) * (r + 1)

\* The cosine distance 1 - cos(u, v) in hundredths, 1 for a zero vector.
CosineDistance(u, v) ==
    LET uu == Dot(u, u)
        vv == Dot(v, v)
        uv == Dot(u, v)
    IN IF uu = 0 \/ vv = 0 THEN ScoreOne
       ELSE ScoreOne - Isqrt((ScoreOne * ScoreOne * uv * uv) \div (uu * vv))

\* The embedders a caller can pass: the keyword embedder, and the Embedder base
\* class, whose embed_texts raises.
Embedders == {"SimpleKeywordEmbedder", "Embedder"}

EmbedRaises(embedder) == embedder = "Embedder"

(***************************************************************************)
(* indexer.py: DocStore                                                    *)
(***************************************************************************)
\* DocStore.load: the dict of the file, {} when the file is missing.  The file
\* holds json.dumps of a dict of str to dict of str to str, which json.loads
\* reads back unchanged.
StoreLoadNothing(file) == <<>>

StoreLoad(file) == IF ~file.exists THEN <<>> ELSE file.docs

\* DocStore.save, and the file after DocStore.clear
StoreSaved(docs) == [exists |-> TRUE, docs |-> docs]

StoreMissing == [exists |-> FALSE, docs |-> <<>>]

\* DocStore.add
StoreAdd(docs, document) ==
    [k \in DOMAIN docs \cup {document.doc_id} |->
        IF k = document.doc_id
           THEN [path |-> document.path, content |-> document.content]
           ELSE docs[k]]

\* for document in documents: doc_store.add(document)
StoreAddAllNone(docs, documents) == docs

RECURSIVE StoreAddAll(_, _)
StoreAddAll(docs, documents) ==
    IF documents = <<>> THEN docs
    ELSE StoreAddAll(StoreAdd(docs, Head(documents)), Tail(documents))

\* The dict build_index starts from: clear() on rebuild, load() otherwise.
StoreAcquireKeep(file, rebuild) == StoreLoad(file)

StoreAcquireFresh(file, rebuild) == <<>>

StoreAcquire(file, rebuild) == IF rebuild THEN <<>> ELSE StoreLoad(file)

\* DocStore.count
StoreCount(docs) == Cardinality(DOMAIN docs)

\* if doc_store.count() == 0: return {"query": query, "results": []}
IndexNotBuiltNever(docs) == FALSE

IndexNotBuilt(docs) == StoreCount(docs) = 0

(***************************************************************************)
(* indexer.py: the vector collections                                      *)
(***************************************************************************)
\* _recreate_collection: delete_collection, then create_collection
RecreateAll(colls, name) == [n \in DOMAIN colls \cup {name} |-> <<>>]

RecreateKeep(colls, name) ==
    IF name \in DOMAIN colls THEN colls
    ELSE [n \in DOMAIN colls \cup {name} |-> IF n = name THEN <<>> ELSE colls[n]]

\* client.get_or_create_collection
GetOrCreateEmpty(colls, name) ==
    [n \in DOMAIN colls \cup {name} |-> IF n = name THEN <<>> ELSE colls[n]]

GetOrCreate(colls, name) ==
    IF name \in DOMAIN colls THEN colls
    ELSE [n \in DOMAIN colls \cup {name} |-> IF n = name THEN <<>> ELSE colls[n]]

\* _recreate_collection: delete_collection, then create_collection
RecreateOnePage(colls, name) ==
    IF name \notin DOMAIN colls \/ DOMAIN colls[name] = {} THEN GetOrCreate(colls, name)
    ELSE LET gone == CHOOSE id \in DOMAIN colls[name] : TRUE
         IN [colls EXCEPT ![name] = [id \in DOMAIN colls[name] \ {gone} |-> colls[name][id]]]

Recreate(colls, name) ==
    [n \in DOMAIN colls \cup {name} |-> IF n = name THEN <<>> ELSE colls[n]]

\* f"{document.doc_id}:{index}"
ChunkId(doc_id, index) == doc_id \o ":" \o ToString(index)

\* The chunks of one document, enumerate() counting from 0.
DocChunks(document, size, ov) ==
    LET cs == ChunkText(document.content, size, ov)
    IN [i \in 1..Len(cs) |->
           [chunk_id    |-> ChunkId(document.doc_id, i - 1),
            doc_id      |-> document.doc_id,
            content     |-> cs[i],
            source_path |-> document.path,
            index       |-> i - 1]]

RECURSIVE BuildChunks(_, _, _)
BuildChunks(documents, size, ov) ==
    IF documents = <<>> THEN <<>>
    ELSE DocChunks(Head(documents), size, ov) \o BuildChunks(Tail(documents), size, ov)

\* if not chunks: return the summary with chunk_count 0
NoChunksNever(cs) == FALSE

NoChunks(cs) == cs = <<>>

\* _build_chunks raises when chunk_text does: it calls it once per document.
BuildChunksRaises(documents, size) == documents # <<>> /\ ~SizeAccepted(size)

\* collection.upsert(ids, documents, metadatas, embeddings)
UpsertKeepOld(entries, cs) ==
    LET ids == {cs[i].chunk_id : i \in 1..Len(cs)}
        last(id) == SetMax({i \in 1..Len(cs) : cs[i].chunk_id = id})
    IN [id \in DOMAIN entries \cup ids |->
           IF id \in DOMAIN entries THEN entries[id]
           ELSE LET c == cs[last(id)]
                IN [doc_id      |-> c.doc_id,
                    source_path |-> c.source_path,
                    chunk_index |-> c.index,
                    document    |-> c.content,
                    embedding   |-> Embed(c.content)]]

Upsert(entries, cs) ==
    LET ids == {cs[i].chunk_id : i \in 1..Len(cs)}
        last(id) == SetMax({i \in 1..Len(cs) : cs[i].chunk_id = id})
    IN [id \in DOMAIN entries \cup ids |->
           IF id \in ids
              THEN LET c == cs[last(id)]
                   IN [doc_id      |-> c.doc_id,
                       source_path |-> c.source_path,
                       chunk_index |-> c.index,
                       document    |-> c.content,
                       embedding   |-> Embed(c.content)]
              ELSE entries[id]]

\* collection.query(query_embeddings, n_results, include): the lists of hits it
\* can return, the n_results nearest entries in ascending order of distance,
\* entries at the same distance in any order.
Nearest(dist, order, k) ==
    /\ \A i, j \in 1..k : (i < j) => dist[order[i]] <= dist[order[j]]
    /\ \A id \in DOMAIN dist :
          (\A i \in 1..k : order[i] # id) => (k = 0 \/ dist[order[k]] <= dist[id])

\* The distances are computed once: dist ranges over a one-element set.
QueryHits(entries, qvec, n_results) ==
    LET ids == DOMAIN entries
        k == MinOf(n_results, Cardinality(ids))
    IN UNION
         {{[i \in 1..k |-> [doc_id |-> entries[order[i]].doc_id, distance |-> dist[order[i]]]] :
              order \in {o \in [1..k -> ids] :
                            /\ \A i, j \in 1..k : (i # j) => o[i] # o[j]
                            /\ Nearest(dist, o, k)}} :
          dist \in {[id \in ids |-> CosineDistance(qvec, entries[id].embedding)]}}

(***************************************************************************)
(* indexer.py: build_index, query_index, get_status                        *)
(***************************************************************************)
CollNames == {"rag_docs"}

\* The chunk_size and chunk_overlap arguments of the build_index calls.
BuildChunkSizes == {0, 1, 3}

BuildOverlaps == {0, 1}

Queries == {<<"a">>, <<"a", " ", "a", " ", "b">>}

\* The record of a call: arguments, what it did, what it returned.  Five fields
\* are history: dropped (the ranked doc_ids a query skipped for want of a store
\* record), repeat (a rebuild that follows a successful rebuild with the same
\* arguments), stale_before (a build that found a store record of a document it
\* did not load), stale_entry (a build that found, in its collection, an entry
\* that is not a chunk of the documents it loaded), fresh (a query that follows
\* a successful rebuild of its collection with at least one chunk).
CallRecord ==
    [op |-> "none", collection_name |-> "", rebuild |-> FALSE, chunk_size |-> 0,
     chunk_overlap |-> 0, documents |-> <<>>, query |-> <<>>, top_k |-> 0,
     outcome |-> "none", doc_count |-> 0, chunk_count |-> 0,
     embed_calls |-> 0, nn_queries |-> 0, upserts |-> 0, results |-> <<>>,
     repeat |-> FALSE, stale_before |-> FALSE, stale_entry |-> FALSE,
     fresh |-> FALSE, dropped |-> 0]

SysInit ==
    /\ store_file = StoreMissing
    /\ collections = <<>>
    /\ call = CallRecord

\* A successful rebuild, as the call before.
RebuiltOk(c) == c.op = "build_index" /\ c.outcome = "returned" /\ c.rebuild

\* The locals documents and chunks are bound to their values once, by \E over
\* a one-element set; chunks is what _build_chunks returns when it returns.
build_index(dir, name, size, ov, rebuild) ==
    \E documents \in {load_documents(dir)} :
    \E cs \in {IF BuildChunksRaises(documents, size) THEN <<>>
                ELSE BuildChunks(documents, size, ov)} :
    LET colls1 == IF rebuild THEN Recreate(collections, name)
                  ELSE GetOrCreate(collections, name)
        docs == StoreAddAll(StoreAcquire(store_file, rebuild), documents)
        args == [CallRecord EXCEPT
                    !.op = "build_index", !.collection_name = name, !.rebuild = rebuild,
                    !.chunk_size = size, !.chunk_overlap = ov, !.documents = documents,
                    !.stale_before =
                        \E k \in DOMAIN StoreLoad(store_file) :
                            \A i \in 1..Len(documents) : documents[i].doc_id # k,
                    !.stale_entry =
                        /\ ~BuildChunksRaises(documents, size)
                        /\ name \in DOMAIN collections
                        /\ \E id \in DOMAIN collections[name] :
                              \A i \in 1..Len(cs) : cs[i].chunk_id # id,
                    !.repeat = /\ RebuiltOk(call) /\ rebuild
                               /\ call.collection_name = name
                               /\ call.chunk_size = size /\ call.chunk_overlap = ov
                               /\ call.documents = documents]
    IN /\ store_file' = StoreSaved(docs)
       /\ IF BuildChunksRaises(documents, size)
             THEN /\ collections' = colls1
                  /\ call' = [args EXCEPT !.outcome = "ValueError"]
          ELSE IF NoChunks(cs)
                  THEN /\ collections' = colls1
                       /\ call' = [args EXCEPT !.outcome = "returned",
                                      !.doc_count = Len(documents), !.chunk_count = 0]
               ELSE \E embedder \in Embedders :
                     IF EmbedRaises(embedder)
                        THEN /\ collections' = colls1
                             /\ call' = [args EXCEPT !.outcome = "NotImplementedError",
                                            !.embed_calls = 1]
                     ELSE /\ collections' = [colls1 EXCEPT ![name] = Upsert(colls1[name], cs)]
                          /\ call' = [args EXCEPT !.outcome = "returned",
                                         !.doc_count = Len(documents),
                                         !.chunk_count = Len(cs),
                                         !.embed_calls = 1, !.upserts = 1]

query_index(query, name, k) ==
    LET colls1 == GetOrCreate(collections, name)
        docs == StoreLoad(store_file)
        args == [CallRecord EXCEPT
                    !.op = "query_index", !.collection_name = name, !.query = query,
                    !.top_k = k,
                    !.fresh = /\ RebuiltOk(call) /\ call.collection_name = name
                              /\ call.chunk_count >= 1]
    IN /\ collections' = colls1
       /\ UNCHANGED store_file
       /\ IF IndexNotBuilt(docs)
             THEN call' = [args EXCEPT !.outcome = "returned"]
          ELSE \E embedder \in Embedders :
             IF EmbedRaises(embedder)
                THEN call' = [args EXCEPT !.outcome = "NotImplementedError",
                                 !.embed_calls = 1]
             ELSE \E hs \in QueryHits(colls1[name], Embed(query), k) :
                     LET results == Aggregate(hs, k, docs)
                     IN call' = [args EXCEPT !.outcome = "returned", !.embed_calls = 1,
                                    !.nn_queries = 1, !.results = results,
                                    !.dropped = Len(Ranked(hs, k)) - Len(results)]

get_status(name) ==
    LET docs == StoreLoad(store_file)
        colls1 == GetOrCreate(collections, name)
    IN /\ collections' = colls1
       /\ UNCHANGED store_file
       /\ call' = [CallRecord EXCEPT
                      !.op = "get_status", !.collection_name = name,
                      !.outcome = "returned", !.doc_count = StoreCount(docs),
                      !.chunk_count = Cardinality(DOMAIN colls1[name])]

BuildIndex ==
    /\ \E dir \in Dirs, name \in CollNames, size \in BuildChunkSizes,
          ov \in BuildOverlaps, rebuild \in BOOLEAN :
          build_index(dir, name, size, ov, rebuild)
    /\ UNCHANGED <<chunkVars, aggVars, concVars>>

QueryIndex ==
    /\ \E query \in Queries, name \in CollNames, k \in 1..MaxTopK :
          query_index(query, name, k)
    /\ UNCHANGED <<chunkVars, aggVars, concVars>>

GetStatus ==
    /\ \E name \in CollNames : get_status(name)
    /\ UNCHANGED <<chunkVars, aggVars, concVars>>

Next == BuildIndex \/ QueryIndex \/ GetStatus

(***************************************************************************)
(* indexer.py: calls for two collection names against one data directory   *)
(***************************************************************************)
TwoNames == {"rag_docs", "notes"}

\* The documents directories of the builds: a.txt alone, with either content,
\* b.MD alone, and a directory with no supported file.
TwoDirs ==
    {d \in Dirs : /\ d.exists
                  /\ d.files[1] \in {NoFile, <<"a">>, <<"b", " ", "a">>}
                  /\ d.files[2] \in {NoFile, <<"a">>}
                  /\ d.files[1] = NoFile \/ d.files[2] = NoFile}

TwoChunkSizes == {1}

TwoQueries == {<<"a">>}

BuildIndexTwo ==
    /\ \E dir \in TwoDirs, name \in TwoNames, size \in TwoChunkSizes, rebuild \in BOOLEAN :
          build_index(dir, name, size, 0, rebuild)
    /\ UNCHANGED <<chunkVars, aggVars, concVars>>

QueryIndexTwo ==
    /\ \E query \in TwoQueries, name \in TwoNames, k \in 1..MaxTopK :
          query_index(query, name, k)
    /\ UNCHANGED <<chunkVars, aggVars, concVars>>

GetStatusTwo ==
    /\ \E name \in TwoNames : get_status(name)
    /\ UNCHANGED <<chunkVars, aggVars, concVars>>

NextTwo == BuildIndexTwo \/ QueryIndexTwo \/ GetStatusTwo

(***************************************************************************)
(* indexer.py: one build_index call and one query_index call in flight on  *)
(* the same data directory and collection, statement by statement          *)
(***************************************************************************)
ConcName == "rag_docs"

\* What build_index leaves when nothing else runs: the store file and the
\* collections after the call.
BuildAlone(file, colls, dir, name, size, ov, rebuild, embedder) ==
    LET documents == load_documents(dir)
        colls1 == IF rebuild THEN Recreate(colls, name) ELSE GetOrCreate(colls, name)
        docs == StoreAddAll(StoreAcquire(file, rebuild), documents)
        upserts == /\ ~BuildChunksRaises(documents, size)
                   /\ ~NoChunks(BuildChunks(documents, size, ov))
                   /\ ~EmbedRaises(embedder)
    IN [file  |-> StoreSaved(docs),
        colls |-> IF upserts
                     THEN [colls1 EXCEPT
                              ![name] = Upsert(colls1[name], BuildChunks(documents, size, ov))]
                     ELSE colls1]

\* The documents directory the index in place was built from.
ConcPriorDir == [exists |-> TRUE, files |-> << <<"b", " ", "a">>, <<"a">>, <<"a">> >>]

\* The data directory before the two calls: empty, or an index built earlier.
ConcPriors ==
    {[file |-> StoreMissing, colls |-> <<>>],
     BuildAlone(StoreMissing, <<>>, ConcPriorDir, ConcName, 1, 0, TRUE,
                "SimpleKeywordEmbedder")}

BuildLocals(prior, dir, size, ov, rebuild, embedder) ==
    [dir |-> dir, chunk_size |-> size, chunk_overlap |-> ov, rebuild |-> rebuild,
     embedder |-> embedder, documents |-> <<>>, docs |-> <<>>, chunks |-> <<>>,
     writing |-> FALSE, outcome |-> "none",
     alone |-> BuildAlone(prior.file, prior.colls, dir, ConcName, size, ov,
                          rebuild, embedder)]

QueryLocals(query, k, embedder) ==
    [query |-> query, top_k |-> k, embedder |-> embedder, handle |-> 0,
     docs |-> <<>>, outcome |-> "none", results |-> <<>>]

ConcIdle ==
    /\ bpc = "idle"
    /\ qpc = "idle"
    /\ bloc = <<>>
    /\ qloc = <<>>
    /\ coll_gen = 0

ConcInit ==
    /\ \E prior \in ConcPriors, dir \in Dirs, size \in BuildChunkSizes,
          ov \in BuildOverlaps, rebuild \in BOOLEAN, embedder \in Embedders :
          /\ store_file = prior.file
          /\ collections = prior.colls
          /\ bloc = BuildLocals(prior, dir, size, ov, rebuild, embedder)
    /\ \E query \in Queries, k \in 1..MaxTopK, embedder \in Embedders :
          qloc = QueryLocals(query, k, embedder)
    /\ bpc = "load_documents"
    /\ qpc = "get_or_create"
    /\ coll_gen = 0
    /\ call = CallRecord

BuildFrame == UNCHANGED <<chunkVars, aggVars, call, qpc, qloc>>

QueryFrame == UNCHANGED <<chunkVars, aggVars, call, bpc, bloc, coll_gen>>

BuildDone(outcome) ==
    /\ bpc' = "done"
    /\ bloc' = [bloc EXCEPT !.outcome = outcome]

\* documents = load_documents(docs_dir)
BLoadDocuments ==
    /\ bpc = "load_documents"
    /\ bloc' = [bloc EXCEPT !.documents = load_documents(bloc.dir)]
    /\ bpc' = IF bloc.rebuild THEN "delete_collection" ELSE "get_or_create"
    /\ UNCHANGED <<store_file, collections, coll_gen>>
    /\ BuildFrame

\* _recreate_collection: client.delete_collection, its exception swallowed
BDeleteCollection ==
    /\ bpc = "delete_collection"
    /\ IF ConcName \in DOMAIN collections
          THEN /\ collections' = [n \in DOMAIN collections \ {ConcName} |-> collections[n]]
               /\ coll_gen' = coll_gen + 1
          ELSE UNCHANGED <<collections, coll_gen>>
    /\ bpc' = "create_collection"
    /\ UNCHANGED <<store_file, bloc>>
    /\ BuildFrame

\* _recreate_collection: client.create_collection, which raises when a
\* collection of that name exists
BCreateCollection ==
    /\ bpc = "create_collection"
    /\ IF ConcName \in DOMAIN collections
          THEN /\ BuildDone("CollectionExists")
               /\ UNCHANGED collections
          ELSE /\ collections' = Recreate(collections, ConcName)
               /\ bpc' = "store_clear"
               /\ UNCHANGED bloc
    /\ UNCHANGED <<store_file, coll_gen>>
    /\ BuildFrame

\* _create_collection
BGetOrCreate ==
    /\ bpc = "get_or_create"
    /\ collections' = GetOrCreate(collections, ConcName)
    /\ bpc' = "store_load"
    /\ UNCHANGED <<store_file, bloc, coll_gen>>
    /\ BuildFrame

\* doc_store.clear()
BStoreClear ==
    /\ bpc = "store_clear"
    /\ store_file' = StoreMissing
    /\ bloc' = [bloc EXCEPT !.docs = <<>>]
    /\ bpc' = "save_open"
    /\ UNCHANGED <<collections, coll_gen>>
    /\ BuildFrame

\* doc_store.load()
BStoreLoad ==
    /\ bpc = "store_load"
    /\ bloc' = [bloc EXCEPT !.docs = StoreLoad(store_file)]
    /\ bpc' = "save_open"
    /\ UNCHANGED <<store_file, collections, coll_gen>>
    /\ BuildFrame

\* doc_store.add per document, then save: write_text opens the file, which
\* creates or truncates it.  While bloc.writing the file holds no text yet.
BSaveOpen ==
    /\ bpc = "save_open"
    /\ bloc' = [bloc EXCEPT !.docs = StoreAddAll(bloc.docs, bloc.documents),
                            !.writing = TRUE]
    /\ store_file' = StoreSaved(<<>>)
    /\ bpc' = "save_write"
    /\ UNCHANGED <<collections, coll_gen>>
    /\ BuildFrame

\* save: write_text writes the JSON text and closes the file
BSaveWrite ==
    /\ bpc = "save_write"
    /\ store_file' = StoreSaved(bloc.docs)
    /\ bloc' = [bloc EXCEPT !.writing = FALSE]
    /\ bpc' = "build_chunks"
    /\ UNCHANGED <<collections, coll_gen>>
    /\ BuildFrame

\* _build_chunks, the early return, embedder.embed_texts
BBuildChunks ==
    /\ bpc = "build_chunks"
    /\ IF BuildChunksRaises(bloc.documents, bloc.chunk_size)
          THEN BuildDone("ValueError")
       ELSE LET cs == BuildChunks(bloc.documents, bloc.chunk_size, bloc.chunk_overlap)
            IN IF NoChunks(cs) THEN BuildDone("returned")
               ELSE IF EmbedRaises(bloc.embedder) THEN BuildDone("NotImplementedError")
               ELSE /\ bloc' = [bloc EXCEPT !.chunks = cs]
                    /\ bpc' = "upsert"
    /\ UNCHANGED <<store_file, collections, coll_gen>>
    /\ BuildFrame

\* collection.upsert(**payload) and the return
BUpsert ==
    /\ bpc = "upsert"
    /\ collections' = [collections EXCEPT
                          ![ConcName] = Upsert(collections[ConcName], bloc.chunks)]
    /\ BuildDone("returned")
    /\ UNCHANGED <<store_file, coll_gen>>
    /\ BuildFrame

QueryDone(outcome, results) ==
    /\ qpc' = "done"
    /\ qloc' = [qloc EXCEPT !.outcome = outcome, !.results = results]

\* collection = _create_collection(client, collection_name): the handle is to
\* the collection of that name as it exists now
QGetOrCreate ==
    /\ qpc = "get_or_create"
    /\ collections' = GetOrCreate(collections, ConcName)
    /\ qloc' = [qloc EXCEPT !.handle = coll_gen]
    /\ qpc' = "load_exists"
    /\ UNCHANGED store_file
    /\ QueryFrame

\* doc_store.load(): if not self._path.exists(), the store is empty and the
\* query returns no result
QLoadExists ==
    /\ qpc = "load_exists"
    /\ IF ~store_file.exists
          THEN QueryDone("returned", <<>>)
          ELSE /\ qpc' = "load_read"
               /\ UNCHANGED qloc
    /\ UNCHANGED <<store_file, collections>>
    /\ QueryFrame

\* doc_store.load(): json.loads(self._path.read_text()), which raises when the
\* file is gone or holds no text yet; then the count() == 0 return and
\* embedder.embed_texts([query])
QLoadRead ==
    /\ qpc = "load_read"
    /\ IF ~store_file.exists THEN QueryDone("FileNotFoundError", <<>>)
       ELSE IF bloc.writing THEN QueryDone("JSONDecodeError", <<>>)
       ELSE IF IndexNotBuilt(StoreLoad(store_file)) THEN QueryDone("returned", <<>>)
       ELSE IF EmbedRaises(qloc.embedder) THEN QueryDone("NotImplementedError", <<>>)
       ELSE /\ qloc' = [qloc EXCEPT !.docs = StoreLoad(store_file)]
            /\ qpc' = "query"
    /\ UNCHANGED <<store_file, collections>>
    /\ QueryFrame

\* collection.query, which raises when the collection of the handle has been
\* deleted, then the aggregation and the return
QQuery ==
    /\ qpc = "query"
    /\ IF qloc.handle # coll_gen THEN QueryDone("CollectionDeleted", <<>>)
       ELSE \E hs \in QueryHits(collections[ConcName], Embed(qloc.query), qloc.top_k) :
               QueryDone("returned", Aggregate(hs, qloc.top_k, qloc.docs))
    /\ UNCHANGED <<store_file, collections>>
    /\ QueryFrame

NextConc ==
    \/ BLoadDocuments
    \/ BDeleteCollection
    \/ BCreateCollection
    \/ BGetOrCreate
    \/ BStoreClear
    \/ BStoreLoad
    \/ BSaveOpen
    \/ BSaveWrite
    \/ BBuildChunks
    \/ BUpsert
    \/ QGetOrCreate
    \/ QLoadExists
    \/ QLoadRead
    \/ QQuery

(***************************************************************************)
(* Specifications                                                          *)
(***************************************************************************)
InitAgg == ChunkIdle /\ AggInit /\ SysInit /\ ConcIdle

SpecAgg == InitAgg /\ [][NextAgg]_vars

Init == ChunkIdle /\ AggIdle /\ SysInit /\ ConcIdle

Spec == Init /\ [][Next]_vars

InitChunk == ChunkInit /\ AggIdle /\ SysInit /\ ConcIdle

SpecChunk == InitChunk /\ [][NextChunk]_vars

\* chunk_text is straight-line code and a loop with no blocking call: a call
\* that can take a step takes it.
SpecChunkFair == SpecChunk /\ WF_vars(NextChunk)

SpecTwo == Init /\ [][NextTwo]_vars

InitConc == ChunkIdle /\ AggIdle /\ ConcInit

SpecConc == InitConc /\ [][NextConc]_vars

(***************************************************************************)
(* Claims about chunk_text (SpecChunk)                                     *)
(***************************************************************************)
RECURSIVE DropLeadingSpace(_)
DropLeadingSpace(s) ==
    IF s = <<>> THEN s
    ELSE IF s[1] = " " THEN DropLeadingSpace(Tail(s)) ELSE s

RECURSIVE DropTrailingSpace(_)
DropTrailingSpace(s) ==
    IF s = <<>> THEN s
    ELSE IF s[Len(s)] = " " THEN DropTrailingSpace(SubSeq(s, 1, Len(s) - 1)) ELSE s

\* The text with its leading and trailing whitespace removed.
Trimmed(s) == DropTrailingSpace(DropLeadingSpace(s))

\* The non-whitespace characters of a text, in order.
NonWhitespace(s) == SelectSeq(s, LAMBDA c : c # " ")

LeadingSpaces(s) == Len(s) - Len(DropLeadingSpace(s))

\* The part of the text the j-th scanned window holds.
WindowText(j) == Slice(text, windows[j][1], windows[j][2])

\* The windows that hold a non-whitespace character: the ones that emit a chunk.
SolidWindows == {j \in 1..Len(windows) : NonWhitespace(WindowText(j)) # <<>>}

\* The concatenation, over the scanned windows from the j-th on, of the part of
\* each emitted chunk that lies behind the end (prevEnd) of the window before it;
\* ci is the index in chunks of the next emitted chunk.
RECURSIVE NonOverlapping(_, _, _)
NonOverlapping(j, ci, prevEnd) ==
    IF j > Len(windows) THEN <<>>
    ELSE IF j \notin SolidWindows THEN NonOverlapping(j + 1, ci, windows[j][2])
    ELSE LET c == IF ci <= Len(chunks) THEN chunks[ci] ELSE <<>>
             chunkStart == windows[j][1] + LeadingSpaces(WindowText(j))
         IN Slice(c, MaxOf(0, prevEnd - chunkStart), Len(c))
                \o NonOverlapping(j + 1, ci + 1, windows[j][2])

ValidChunkArgs == chunk_size > 0 /\ 0 <= chunk_overlap /\ chunk_overlap < chunk_size

\* C7: for chunk_size > 0 and 0 <= overlap < chunk_size, chunk_text returns no
\* empty chunk, the windows it scans are non-empty and leave no gap (the first
\* starts at 0, each next one starts at or before the end of the one before, the
\* last ends at the end of the text), every window with a non-whitespace
\* character emits one chunk, and the non-overlapping portions of the chunks,
\* concatenated in order, hold the text's non-whitespace content in order.
C7_ChunksCoverText ==
    (ValidChunkArgs /\ cpc \in {"loop", "done"}) =>
        /\ \A i \in 1..Len(chunks) : chunks[i] # <<>>
        /\ \A j \in 1..Len(windows) :
              /\ windows[j][1] < windows[j][2]
              /\ windows[j][1] <= (IF j = 1 THEN 0 ELSE windows[j - 1][2])
              /\ (j = 1) => windows[j][1] = 0
        /\ Cardinality(SolidWindows) = Len(chunks)
        /\ (cpc = "done") =>
              /\ IF text = <<>> THEN windows = <<>>
                 ELSE windows # <<>> /\ windows[Len(windows)][2] = Len(text)
              /\ NonWhitespace(NonOverlapping(1, 1, 0)) = NonWhitespace(text)

\* A finished call with a real overlap, three windows and a dropped blank window.
C7_Witness ==
    /\ cpc = "done"
    /\ ValidChunkArgs
    /\ chunk_overlap >= 1
    /\ Len(windows) >= 3
    /\ Len(chunks) >= 2
    /\ Len(chunks) < Len(windows)

\* C8: for len(text) <= chunk_size (chunk_size > 0, any overlap), chunk_text
\* returns exactly one chunk, the text with its leading and trailing whitespace
\* removed, or the empty list if the text trims to empty (so also for "").
C8_ShortTextOneChunk ==
    (cpc = "done" /\ Len(text) <= chunk_size) =>
        chunks = IF Trimmed(text) = <<>> THEN <<>> ELSE <<Trimmed(text)>>

\* A short text with whitespace on both sides, and an overlap at least chunk_size.
C8_Witness ==
    /\ cpc = "done"
    /\ Len(text) <= chunk_size
    /\ chunk_overlap >= chunk_size
    /\ Len(text) >= 3
    /\ text[1] = " "
    /\ text[Len(text)] = " "
    /\ Len(chunks) = 1

\* C9: with chunk_size <= 0 chunk_text raises, for every text (the empty text
\* too) and every overlap, before it appends any chunk.
C9_NonPositiveSizeRaises ==
    (chunk_size <= 0 /\ cpc # "call") => (cpc = "raised" /\ chunks = <<>>)

\* The raise for the empty text with chunk_size = 0.
C9_Witness == cpc = "raised" /\ text = <<>> /\ chunk_size = 0

\* C13: for chunk_size > 0 and every chunk_overlap, the overlap used lies in
\* 0..chunk_size - 1, the window start strictly increases from one pass of the
\* loop to the next and stays below the length of the text, the call returns,
\* and when it returns after a pass the last window ends at the end of the text.
C13_ChunkTextTerminates ==
    /\ [][(cpc = "loop" /\ cpc' = "loop") =>
             /\ ClampOverlap(chunk_overlap, chunk_size) \in 0..(chunk_size - 1)
             /\ start' > start
             /\ start' < Len(text)]_vars
    /\ [][(cpc = "loop" /\ cpc' = "done" /\ windows' # <<>>) =>
             windows'[Len(windows')][2] = Len(text)]_vars
    /\ (cpc = "call" /\ chunk_size > 0) ~> (cpc = "done")

\* A call with chunk_overlap above chunk_size that returned after three windows.
C13_Witness ==
    /\ cpc = "done"
    /\ chunk_size > 0
    /\ chunk_overlap > chunk_size
    /\ Len(windows) >= 3
    /\ \A j \in 1..(Len(windows) - 1) : windows[j][1] < windows[j + 1][1]

(***************************************************************************)
(* Claims about the aggregation of query_index (SpecAgg)                   *)
(***************************************************************************)
\* The distance a result stands for: score = 1.0 - distance.
ResultDistance(r) == ScoreOne - r.score

HitDistances(doc_id) == {hits[i].distance : i \in {j \in 1..Len(hits) : hits[j].doc_id = doc_id}}

\* C1: for any list of hits, each doc_id appears at most once in the results,
\* with the minimum distance over its hits; the results are in ascending order
\* of that distance, and there are at most top_k of them.
C1_AggregatesPerDocument ==
    (apc = "done") =>
        /\ Len(response) <= top_k
        /\ \A i, j \in 1..Len(response) :
              (i < j) => /\ response[i].doc_id # response[j].doc_id
                         /\ ResultDistance(response[i]) <= ResultDistance(response[j])
        /\ \A i \in 1..Len(response) :
              /\ HitDistances(response[i].doc_id) # {}
              /\ ResultDistance(response[i]) = SetMin(HitDistances(response[i].doc_id))

\* The example: hits [(A, 0.3), (A, 0.1), (B, 0.2)] with top_k = 2 give
\* [A(0.1), B(0.2)].
C1_Witness ==
    /\ apc = "done"
    /\ top_k = 2
    /\ hits = <<[doc_id |-> "A", distance |-> 30], [doc_id |-> "A", distance |-> 10],
                [doc_id |-> "B", distance |-> 20]>>
    /\ Len(response) = 2
    /\ response[1].doc_id = "A" /\ response[1].score = ScoreOne - 10
    /\ response[2].doc_id = "B" /\ response[2].score = ScoreOne - 20

\* The doc_ids of the hits that are neither missing nor empty.
HitDocIds == {hits[i].doc_id : i \in {j \in 1..Len(hits) : hits[j].doc_id \notin {PyNone, ""}}}

BestDistance(doc_id) == SetMin(HitDistances(doc_id))

\* The documents of the hits that are nearer than doc_id, or not farther.
NearerDocs(doc_id) ==
    {e \in HitDocIds \ {doc_id} : BestDistance(e) < BestDistance(doc_id)}

NotFartherDocs(doc_id) ==
    {e \in HitDocIds \ {doc_id} : BestDistance(e) <= BestDistance(doc_id)}

ResponseIds == {response[i].doc_id : i \in 1..Len(response)}

\* C17: for any hits and any document store, query_index returns; no result
\* has a missing or empty doc_id or a doc_id without a store record; the results
\* are in rank order; every result is among the top_k documents of the ranking
\* that counts the documents without a store record (a skipped slot is not
\* filled), and every document with a store record that is surely among those
\* top_k is a result.
C17_MismatchesAreSkipped ==
    (apc = "done") =>
        /\ \A i \in 1..Len(response) :
              /\ response[i].doc_id \in HitDocIds
              /\ response[i].doc_id \in DOMAIN agg_docs
              /\ Cardinality(NearerDocs(response[i].doc_id)) < top_k
        /\ \A i, j \in 1..Len(response) :
              (i < j) => ResultDistance(response[i]) <= ResultDistance(response[j])
        /\ \A d \in HitDocIds \cap DOMAIN agg_docs :
              (Cardinality(NotFartherDocs(d)) < top_k) => d \in ResponseIds

\* Hits [(None, 0.1), (A, 0.2), (B, 0.3)] with top_k = 2 and a store that holds
\* B only: the first hit is dropped, A is skipped, B is the one result.
C17_Witness ==
    /\ apc = "done"
    /\ top_k = 2
    /\ hits = <<[doc_id |-> PyNone, distance |-> 10], [doc_id |-> "A", distance |-> 20],
                [doc_id |-> "B", distance |-> 30]>>
    /\ DOMAIN agg_docs = {"B"}
    /\ Len(response) = 1
    /\ response[1].doc_id = "B"

(***************************************************************************)
(* Claims about build_index and query_index (Spec)                         *)
(***************************************************************************)
\* The doc_ids of the documents a build loaded.
LoadedIds(c) == {c.documents[i].doc_id : i \in 1..Len(c.documents)}

\* The records of the persisted document store, none when the file is missing.
Persisted(file) == IF file.exists THEN file.docs ELSE <<>>

\* The persisted store holds the record of every document the build c loaded.
HoldsLoaded(file, c) ==
    \A i \in 1..Len(c.documents) :
        LET d == c.documents[i]
        IN /\ d.doc_id \in DOMAIN Persisted(file)
           /\ Persisted(file)[d.doc_id] = [path |-> d.path, content |-> d.content]

\* C2: a build with rebuild = False removes no store record: the doc_ids after
\* it are those held before and those of the documents loaded, the loaded
\* documents with their own records, the others with the records they had.
C2_IncrementalKeepsRecords ==
    [][(call'.op = "build_index" /\ ~call'.rebuild) =>
          /\ store_file'.exists
          /\ DOMAIN Persisted(store_file') =
                DOMAIN Persisted(store_file) \cup LoadedIds(call')
          /\ HoldsLoaded(store_file', call')
          /\ \A k \in DOMAIN Persisted(store_file) \ LoadedIds(call') :
                Persisted(store_file')[k] = Persisted(store_file)[k]]_vars

\* A build with rebuild = False that loaded a document and found the record of
\* another one, which is still there.
C2_Witness ==
    /\ call.op = "build_index" /\ ~call.rebuild /\ call.outcome = "returned"
    /\ call.stale_before
    /\ Len(call.documents) = 1
    /\ Cardinality(DOMAIN Persisted(store_file)) = 2

\* C3: after a build with rebuild = True, whatever the store held before, the
\* persisted store holds exactly the documents that build loaded, each with its
\* path and content.
C3_RebuildStoreIsLoaded ==
    (call.op = "build_index" /\ call.rebuild) =>
        /\ store_file.exists
        /\ DOMAIN Persisted(store_file) = LoadedIds(call)
        /\ HoldsLoaded(store_file, call)

\* A rebuild that found the record of a document it did not load.
C3_Witness ==
    /\ call.op = "build_index" /\ call.rebuild /\ call.outcome = "returned"
    /\ call.stale_before
    /\ Len(call.documents) = 1

\* C4: a rebuild that follows a successful rebuild with the same documents,
\* collection and chunk parameters, and returns, returns the same doc_count and
\* chunk_count and leaves the document store and the collections as they were,
\* so a query reads the same state after it as before it.
C4_RebuildIdempotent ==
    [][(call'.op = "build_index" /\ call'.repeat /\ call'.outcome = "returned") =>
          /\ call'.doc_count = call.doc_count
          /\ call'.chunk_count = call.chunk_count
          /\ store_file' = store_file
          /\ collections' = collections]_vars

\* The second of two equal rebuilds of two documents in three chunks.
C4_Witness ==
    /\ call.op = "build_index" /\ call.repeat /\ call.outcome = "returned"
    /\ call.doc_count = 2
    /\ call.chunk_count = 3

\* C5: query_index on a store of zero documents (the file missing or holding no
\* record) returns no result, without a call to the embedder or a
\* nearest-neighbour query.
C5_EmptyStoreFastPath ==
    (call.op = "query_index" /\ DOMAIN Persisted(store_file) = {}) =>
        /\ call.outcome = "returned"
        /\ call.results = <<>>
        /\ call.embed_calls = 0
        /\ call.nn_queries = 0

\* A query against a data directory whose store file does not exist.
C5_Witness ==
    /\ call.op = "query_index"
    /\ ~store_file.exists
    /\ call.results = <<>>

\* The entries of a collection, none when the collection does not exist.
EntryIds(colls, name) == IF name \in DOMAIN colls THEN DOMAIN colls[name] ELSE {}

\* C6: a build that loads no document, and so has no chunk, returns
\* chunk_count = 0 without raising, calls the embedder not once, upserts
\* nothing and adds no entry to the collection.
C6_NoChunksNoEmbedding ==
    [][(call'.op = "build_index" /\ call'.documents = <<>>) =>
          /\ call'.outcome = "returned"
          /\ call'.chunk_count = 0
          /\ call'.embed_calls = 0
          /\ call'.upserts = 0
          /\ EntryIds(collections', call'.collection_name)
                \subseteq EntryIds(collections, call'.collection_name)]_vars

\* A build with rebuild = False and chunk_size = 0 that loaded nothing, on a
\* data directory that holds records and entries.
C6_Witness ==
    /\ call.op = "build_index" /\ call.documents = <<>> /\ ~call.rebuild
    /\ call.chunk_size = 0
    /\ call.outcome = "returned"
    /\ DOMAIN Persisted(store_file) # {}
    /\ EntryIds(collections, call.collection_name) # {}

\* The distances from the query of the last call to the entries of its collection.
EntryDistances ==
    LET entries == collections[call.collection_name]
    IN [id \in DOMAIN entries |->
           CosineDistance(Embed(call.query), entries[id].embedding)]

\* C10: a query that follows a successful rebuild of its collection with at
\* least one chunk, with top_k >= 1, returns at least one and at most top_k
\* results (one for top_k = 1); the first is a document that owns a nearest
\* chunk, with the score of that chunk's distance and the stored path and full
\* content of the document.
C10_QueryAfterRebuild ==
    (call.op = "query_index" /\ call.fresh /\ call.outcome = "returned") =>
        /\ call.results # <<>>
        /\ Len(call.results) <= call.top_k
        /\ LET first == call.results[1]
               nearest == SetMin({EntryDistances[id] : id \in DOMAIN EntryDistances})
           IN /\ \E id \in DOMAIN EntryDistances :
                    /\ EntryDistances[id] = nearest
                    /\ collections[call.collection_name][id].doc_id = first.doc_id
              /\ ResultDistance(first) = nearest
              /\ first.doc_id \in DOMAIN Persisted(store_file)
              /\ first.content = Persisted(store_file)[first.doc_id].content
              /\ first.source_path = Persisted(store_file)[first.doc_id].path

\* A top_k = 1 query for "a" after a rebuild of two documents in three chunks:
\* the one result carries the three characters of the document, not a chunk.
C10_Witness ==
    /\ call.op = "query_index" /\ call.fresh /\ call.outcome = "returned"
    /\ call.top_k = 1
    /\ call.query = <<"a">>
    /\ Len(call.results) = 1
    /\ Cardinality(DOMAIN Persisted(store_file)) = 2
    /\ Cardinality(EntryIds(collections, call.collection_name)) = 3
    /\ call.results[1].content = <<"b", " ", "a">>

\* The entries of a collection with their metadata, documents and embeddings.
EntriesOf(colls, name) == IF name \in DOMAIN colls THEN colls[name] ELSE <<>>

\* C11: get_status returns, leaves the persisted document store as it was,
\* deletes no collection and changes the entries of none (a collection it creates
\* is empty), and reports doc_count = the number of records of the document
\* store and chunk_count = the number of entries of the named collection.
C11_StatusReadOnly ==
    [][(call'.op = "get_status") =>
          /\ call'.outcome = "returned"
          /\ store_file' = store_file
          /\ DOMAIN collections \subseteq DOMAIN collections'
          /\ \A n \in DOMAIN collections' :
                EntriesOf(collections', n) = EntriesOf(collections, n)
          /\ call'.doc_count = Cardinality(DOMAIN Persisted(store_file'))
          /\ call'.chunk_count =
                Cardinality(EntryIds(collections', call'.collection_name))]_vars

\* A status call on a store of two records and a collection of three entries.
C11_Witness ==
    /\ call.op = "get_status" /\ call.outcome = "returned"
    /\ call.doc_count = 2
    /\ call.chunk_count = 3
    /\ Cardinality(DOMAIN Persisted(store_file)) = 2
    /\ Cardinality(EntryIds(collections, call.collection_name)) = 3

\* The chunk ids "<doc_id>:<index>" of the documents a build loaded, the indexes
\* of a document running from 0 to the number of its chunks less one.
LoadedChunkIds(c) ==
    UNION {{ChunkId(c.documents[i].doc_id, k) :
               k \in 0..(Len(ChunkText(c.documents[i].content, c.chunk_size,
                                       c.chunk_overlap)) - 1)} :
           i \in 1..Len(c.documents)}

\* C15: after a build_index(rebuild=True) that returns, whatever the collection
\* held before, the ids of its entries are exactly the chunk ids of the
\* documents that build loaded, and their number is the chunk_count returned.
C15_RebuildEntriesAreLoadedChunks ==
    (call.op = "build_index" /\ call.rebuild /\ call.outcome = "returned") =>
        /\ EntryIds(collections, call.collection_name) = LoadedChunkIds(call)
        /\ Cardinality(EntryIds(collections, call.collection_name)) = call.chunk_count

\* A rebuild of one document in one chunk over a collection that held entries of
\* other chunks.
C15_Witness ==
    /\ call.op = "build_index" /\ call.rebuild /\ call.outcome = "returned"
    /\ call.stale_entry
    /\ call.chunk_count = 1
    /\ Cardinality(EntryIds(collections, call.collection_name)) = 1

\* The doc_ids the entries of a collection carry in their metadata.
EntryDocIds(colls, name) ==
    {EntriesOf(colls, name)[id].doc_id : id \in EntryIds(colls, name)}

\* C18: with one data directory and one collection name, after any sequence of
\* calls (builds with rebuild or not, returned or failed), every doc_id of an
\* entry of the collection has a record in the persisted document store, and a
\* query skips no ranked doc_id for a missing record.
C18_EntriesHaveStoreRecords ==
    /\ EntryDocIds(collections, "rag_docs") \subseteq DOMAIN Persisted(store_file)
    /\ (call.op = "query_index") => call.dropped = 0

\* A build with rebuild = False that failed at the embedding step, over an
\* index of three entries of two documents.
C18_Witness ==
    /\ call.op = "build_index" /\ call.outcome = "NotImplementedError"
    /\ ~call.rebuild
    /\ call.stale_before
    /\ Cardinality(EntryIds(collections, "rag_docs")) = 3
    /\ Cardinality(EntryDocIds(collections, "rag_docs")) = 2

\* C14: every build_index call with chunk_size <= 0 raises the configuration
\* error (ValueError) and returns no summary, whatever the documents directory
\* holds.
C14_NonPositiveSizeFailsBuild ==
    (call.op = "build_index" /\ call.chunk_size <= 0) => call.outcome = "ValueError"

\* The ids of the entries of the last call's collection that carry doc_id.
EntryIdsOfDoc(doc_id) ==
    {id \in EntryIds(collections, call.collection_name) :
        collections[call.collection_name][id].doc_id = doc_id}

\* The chunks chunk_text gives for a document under the last call's arguments.
CurrentChunks(d) == ChunkText(d.content, call.chunk_size, call.chunk_overlap)

CurrentChunkIds(d) == {ChunkId(d.doc_id, k) : k \in 0..(Len(CurrentChunks(d)) - 1)}

\* C20 as stated: after a build_index call that returns, rebuild or not, for
\* every document it loaded the entries that carry its doc_id are exactly the
\* chunks of its current content.
C20_OnlyCurrentChunks ==
    (call.op = "build_index" /\ call.outcome = "returned") =>
        \A i \in 1..Len(call.documents) :
            EntryIdsOfDoc(call.documents[i].doc_id) = CurrentChunkIds(call.documents[i])

\* C20 as amended: after a build_index call that returns, for every document it
\* loaded every chunk of the current content is an entry, under the id
\* "<doc_id>:<index>", with the chunk's text, index and embedding; after a
\* rebuild the document has no other entry; after a build with rebuild = False
\* any other entry of the document has an index at or above the number of
\* current chunks, left by an earlier build.
C20_CurrentChunksPresent ==
    (call.op = "build_index" /\ call.outcome = "returned") =>
        \A i \in 1..Len(call.documents) :
            LET d == call.documents[i]
                entries == collections[call.collection_name]
            IN /\ CurrentChunkIds(d) \subseteq EntryIdsOfDoc(d.doc_id)
               /\ \A k \in 1..Len(CurrentChunks(d)) :
                     LET e == entries[ChunkId(d.doc_id, k - 1)]
                     IN /\ e.document = CurrentChunks(d)[k]
                        /\ e.chunk_index = k - 1
                        /\ e.source_path = d.path
                        /\ e.embedding = Embed(CurrentChunks(d)[k])
               /\ call.rebuild => EntryIdsOfDoc(d.doc_id) = CurrentChunkIds(d)
               /\ \A id \in EntryIdsOfDoc(d.doc_id) \ CurrentChunkIds(d) :
                     entries[id].chunk_index >= Len(CurrentChunks(d))

\* A build with rebuild = False of a document in one chunk whose entry of index 1,
\* from an earlier build, is still in the collection.
C20_Witness ==
    /\ call.op = "build_index" /\ call.outcome = "returned" /\ ~call.rebuild
    /\ Len(call.documents) = 1
    /\ call.chunk_count = 1
    /\ ChunkId(call.documents[1].doc_id, 1) \in EntryIdsOfDoc(call.documents[1].doc_id)

(***************************************************************************)
(* Claims about a build and a query in flight together (SpecConc)          *)
(***************************************************************************)
\* C12: when a build_index call and a query_index call on the same data
\* directory and collection have both finished, whatever the interleaving of
\* their statements, the persisted document store and the collections are what
\* the build alone leaves.
C12_QueryLeavesBuildResult ==
    (bpc = "done" /\ qpc = "done") =>
        /\ store_file = bloc.alone.file
        /\ collections = bloc.alone.colls

\* C16: when embedder.embed_texts raises in build_index, the document store
\* file already holds, fully written, the record of every document the build
\* loaded; the error ends the call, which leaves the store file and the
\* collections as they are at that point: no entry is upserted, nothing is
\* rolled back.
C16_NoRollbackOnEmbedFailure ==
    [][(bpc = "build_chunks" /\ bloc'.outcome = "NotImplementedError") =>
          /\ store_file.exists
          /\ ~bloc.writing
          /\ HoldsLoaded(store_file, bloc)
          /\ bpc' = "done"
          /\ store_file' = store_file
          /\ collections' = collections]_vars

\* A failed build with rebuild = False of two documents: both records are in
\* the store, the collection still has the three entries of the earlier index.
C16_Witness ==
    /\ bpc = "done" /\ bloc.outcome = "NotImplementedError"
    /\ ~bloc.rebuild
    /\ Len(bloc.documents) = 2
    /\ HoldsLoaded(store_file, bloc)
    /\ bloc.documents[1].content = <<"a">>
    /\ Cardinality(EntryIds(collections, ConcName)) = 3

(***************************************************************************)
(* Claims about two collections in one data directory (SpecTwo)            *)
(***************************************************************************)
\* The results query_index(query, name, k) can return on a data directory.
ResultsOn(file, colls, name, query, k) ==
    IF IndexNotBuilt(StoreLoad(file)) THEN {<<>>}
    ELSE {Aggregate(hs, k, StoreLoad(file)) :
             hs \in QueryHits(EntriesOf(colls, name), Embed(query), k)}

\* The doc_ids whose store record a step leaves as it is.
KeptRecords ==
    {d \in DOMAIN Persisted(store_file) \cap DOMAIN Persisted(store_file') :
        Persisted(store_file)[d] = Persisted(store_file')[d]}

\* Of each result list of rs, the results of the documents of kept.
KeptResults(rs, kept) ==
    {SelectSeq(r, LAMBDA x : x.doc_id \in kept) : r \in rs}

\* C19 as stated: a build_index call for one collection name changes the
\* results of no query_index call for another name in the same data directory.
C19_OtherCollectionResultsKept ==
    [][(call'.op = "build_index") =>
          \A other \in TwoNames \ {call'.collection_name} :
             \A query \in TwoQueries, k \in 1..MaxTopK :
                ResultsOn(store_file', collections', other, query, k) =
                   ResultsOn(store_file, collections, other, query, k)]_vars

\* C19 as amended: a build_index call for one collection name neither creates
\* nor deletes a collection of another name and leaves its entries as they are;
\* the results of a query for the other name change only through the document
\* store the collections share: the results of the documents whose record the
\* build left as it was are the same, in the same order.
C19_OtherCollectionEntriesKept ==
    [][(call'.op = "build_index") =>
          \A other \in TwoNames \ {call'.collection_name} :
             /\ (other \in DOMAIN collections') = (other \in DOMAIN collections)
             /\ EntriesOf(collections', other) = EntriesOf(collections, other)
             /\ \A query \in TwoQueries, k \in 1..MaxTopK, kept \in {KeptRecords} :
                   KeptResults(ResultsOn(store_file', collections', other, query, k), kept) =
                      KeptResults(ResultsOn(store_file, collections, other, query, k), kept)]_vars

\* A rebuild for "notes" that removed the store records of documents of
\* "rag_docs", whose three entries are still there.
C19_Witness ==
    /\ call.op = "build_index" /\ call.collection_name = "notes"
    /\ call.rebuild /\ call.outcome = "returned"
    /\ call.stale_before
    /\ Cardinality(EntryIds(collections, "rag_docs")) = 3
    /\ ~(EntryDocIds(collections, "rag_docs") \subseteq DOMAIN Persisted(store_file))

====
